---- MODULE Spec2Model ----
(***************************************************************************)
(* Account management system: the balance store (data.py), the operation   *)
(* classes and the registry/dispatcher (operations.py), and the Interest   *)
(* and Fees extensions (extended_operations_demo.py).                      *)
(*                                                                         *)
(* Monetary values are Python floats in the source.  Here a value is an    *)
(* integer number of thousandths of the currency unit (Scale per unit), so *)
(* 1000.00 is 1000000 and 0.005 is 5.  An Optional[float] is a sequence:   *)
(* None is <<>> and the float v is <<v>>.  Messages are strings.           *)
(***************************************************************************)
EXTENDS Integers, Sequences, FiniteSets, TLC

VARIABLES
    storage_balance,  \* DataProgram._storage_balance
    operations,       \* Operations._operations: identifier -> factory
    last,             \* the most recent call on the dispatcher and what it did
    registered,       \* per identifier, the factory of its latest registration
    nsteps,           \* number of dispatches so far
    display,          \* a value handed to _format_amount and the texts produced
    history,          \* the calls of a client session on the dispatcher, in order
    stdin,            \* main(): the lines of standard input not read yet
    stdout,           \* main(): what was written to standard output, in order
    pc,               \* main(): "off", "running", "exited" or "crashed"
    exit_status,      \* main(): the status the process ended with
    runs,             \* main(): number of times the program was started
    earlier_runs,     \* main(): exit status and final balance of each earlier run
    threads,          \* concurrent callers of DebitOperation.execute
    atomic            \* whether each caller's read and write are one atomic unit

dispatchVars == <<last, registered, nsteps>>

formatVars == <<display>>

sessionVars == <<history>>

menuVars == <<stdin, stdout, pc, exit_status, runs, earlier_runs>>

raceVars == <<threads, atomic>>

vars == <<storage_balance, operations, dispatchVars, formatVars, sessionVars,
          menuVars, raceVars>>

\* ------------------------------------------------------------------ values

Scale == 1000

None == <<>>

Some(v) == <<v>>

IsNone(x) == x = <<>>

Val(x) == x[1]

Abs(n) == IF n < 0 THEN -n ELSE n

\* int(x): truncation toward zero of num/den (den > 0)
TruncDiv(num, den) == IF num >= 0 THEN num \div den ELSE -((-num) \div den)

\* round(num/den) as Python 3 rounds: to nearest, ties to the even integer
RoundHalfEven(num, den) ==
    LET q == num \div den
        r == num % den
    IN  IF 2 * r < den THEN q
        ELSE IF 2 * r > den THEN q + 1
        ELSE IF q % 2 = 0 THEN q ELSE q + 1

\* ------------------------------------------------------------- formatting

DigitChar(d) ==
    CASE d = 0 -> "0" [] d = 1 -> "1" [] d = 2 -> "2" [] d = 3 -> "3"
      [] d = 4 -> "4" [] d = 5 -> "5" [] d = 6 -> "6" [] d = 7 -> "7"
      [] d = 8 -> "8" [] d = 9 -> "9"

RECURSIVE NatToStr(_)
NatToStr(n) == IF n < 10 THEN DigitChar(n)
               ELSE NatToStr(n \div 10) \o DigitChar(n % 10)

RECURSIVE ZeroPad(_, _)
ZeroPad(s, width) == IF Len(s) >= width THEN s ELSE ZeroPad("0" \o s, width)

\* f"{n:0<width>d}": the sign counts in the width, zeros go after the sign
FormatInt(n, width) ==
    IF n < 0 THEN "-" \o ZeroPad(NatToStr(-n), width - 1)
    ELSE ZeroPad(NatToStr(n), width)

\* mutant: the integer part is cut to the six digits of PIC 9(6)
format_amount_SixDigits(value) ==
    LET integer == TruncDiv(value, Scale) % 1000000
        frac    == RoundHalfEven((value - TruncDiv(value, Scale) * Scale) * 100, Scale)
    IN  FormatInt(integer, 6) \o "." \o FormatInt(frac, 2)

\* BaseOperation._format_amount
format_amount(value) ==
    LET integer == TruncDiv(value, Scale)
        frac    == RoundHalfEven((value - integer * Scale) * 100, Scale)
    IN  FormatInt(integer, 6) \o "." \o FormatInt(frac, 2)

\* f"{rate:.1%}" for a rate given in thousandths
FormatPercent(rate) == FormatInt(rate \div 10, 1) \o "." \o DigitChar(rate % 10) \o "%"

\* ---------------------------------------------------------------- results

OperationResult(success, message, new_balance) ==
    [success |-> success, message |-> message, new_balance |-> new_balance]

\* What one execute() does: the result it returns, the value the store holds
\* afterwards, and the calls it made on the store, in order.
Outcome(result, storage, accesses) ==
    [result |-> result, storage |-> storage, accesses |-> accesses]

\* ------------------------------------------------------------- operations

\* mutant: View returns its message without the balance it read
ViewBalanceOperation_execute_NoBalance(balance, amount) ==
    Outcome(OperationResult(TRUE, "Current balance: " \o format_amount(balance) \o "\n",
                            None),
            balance, <<"read">>)

ViewBalanceOperation_execute(balance, amount) ==
    Outcome(OperationResult(TRUE, "Current balance: " \o format_amount(balance) \o "\n",
                            Some(balance)),
            balance, <<"read">>)

\* mutant: Credit computes and reports the new balance but never writes it
CreditOperation_execute_NoWrite(balance, amount) ==
    IF IsNone(amount)
    THEN Outcome(OperationResult(FALSE, "Amount required for credit operation.\n", None),
                 balance, <<>>)
    ELSE IF Val(amount) < 0
    THEN Outcome(OperationResult(FALSE, "Credit amount must be positive.\n", None),
                 balance, <<>>)
    ELSE LET new_balance == balance + Val(amount)
         IN  Outcome(OperationResult(TRUE,
                        "Amount credited. New balance: " \o format_amount(new_balance) \o "\n",
                        Some(new_balance)),
                     balance, <<"read">>)

\* mutant: Credit takes a missing amount for 0.0
CreditOperation_execute_DefaultZero(balance, amount) ==
    LET a == IF IsNone(amount) THEN 0 ELSE Val(amount)
    IN  IF a < 0
        THEN Outcome(OperationResult(FALSE, "Credit amount must be positive.\n", None),
                     balance, <<>>)
        ELSE Outcome(OperationResult(TRUE,
                        "Amount credited. New balance: " \o format_amount(balance + a) \o "\n",
                        Some(balance + a)),
                     balance + a, <<"read", "write">>)

CreditOperation_execute(balance, amount) ==
    IF IsNone(amount)
    THEN Outcome(OperationResult(FALSE, "Amount required for credit operation.\n", None),
                 balance, <<>>)
    ELSE IF Val(amount) < 0
    THEN Outcome(OperationResult(FALSE, "Credit amount must be positive.\n", None),
                 balance, <<>>)
    ELSE LET new_balance == balance + Val(amount)
         IN  Outcome(OperationResult(TRUE,
                        "Amount credited. New balance: " \o format_amount(new_balance) \o "\n",
                        Some(new_balance)),
                     new_balance, <<"read", "write">>)

\* mutant: Debit requires the balance to exceed the amount
DebitOperation_execute_Strict(balance, amount) ==
    IF IsNone(amount)
    THEN Outcome(OperationResult(FALSE, "Amount required for debit operation.\n", None),
                 balance, <<>>)
    ELSE IF Val(amount) < 0
    THEN Outcome(OperationResult(FALSE, "Debit amount must be positive.\n", None),
                 balance, <<>>)
    ELSE IF balance > Val(amount)
    THEN LET new_balance == balance - Abs(Val(amount))
         IN  Outcome(OperationResult(TRUE,
                        "Amount debited. New balance: " \o format_amount(new_balance) \o "\n",
                        Some(new_balance)),
                     new_balance, <<"read", "write">>)
    ELSE Outcome(OperationResult(FALSE, "Insufficient funds for this debit.\n", Some(balance)),
                 balance, <<"read">>)

\* mutant: Debit checks the funds before the sign of the amount
DebitOperation_execute_FundsFirst(balance, amount) ==
    IF IsNone(amount)
    THEN Outcome(OperationResult(FALSE, "Amount required for debit operation.\n", None),
                 balance, <<>>)
    ELSE IF balance < Val(amount)
    THEN Outcome(OperationResult(FALSE, "Insufficient funds for this debit.\n", Some(balance)),
                 balance, <<"read">>)
    ELSE IF Val(amount) < 0
    THEN Outcome(OperationResult(FALSE, "Debit amount must be positive.\n", None),
                 balance, <<"read">>)
    ELSE LET new_balance == balance - Abs(Val(amount))
         IN  Outcome(OperationResult(TRUE,
                        "Amount debited. New balance: " \o format_amount(new_balance) \o "\n",
                        Some(new_balance)),
                     new_balance, <<"read", "write">>)

\* mutant: Debit refuses the amount 0
DebitOperation_execute_RejectsZero(balance, amount) ==
    IF IsNone(amount)
    THEN Outcome(OperationResult(FALSE, "Amount required for debit operation.\n", None),
                 balance, <<>>)
    ELSE IF Val(amount) <= 0
    THEN Outcome(OperationResult(FALSE, "Debit amount must be positive.\n", None),
                 balance, <<>>)
    ELSE IF balance >= Val(amount)
    THEN LET new_balance == balance - Abs(Val(amount))
         IN  Outcome(OperationResult(TRUE,
                        "Amount debited. New balance: " \o format_amount(new_balance) \o "\n",
                        Some(new_balance)),
                     new_balance, <<"read", "write">>)
    ELSE Outcome(OperationResult(FALSE, "Insufficient funds for this debit.\n", Some(balance)),
                 balance, <<"read">>)

\* mutant: a refused Debit carries no balance
DebitOperation_execute_NoBalanceOnFail(balance, amount) ==
    IF IsNone(amount)
    THEN Outcome(OperationResult(FALSE, "Amount required for debit operation.\n", None),
                 balance, <<>>)
    ELSE IF Val(amount) < 0
    THEN Outcome(OperationResult(FALSE, "Debit amount must be positive.\n", None),
                 balance, <<>>)
    ELSE IF balance >= Val(amount)
    THEN LET new_balance == balance - Abs(Val(amount))
         IN  Outcome(OperationResult(TRUE,
                        "Amount debited. New balance: " \o format_amount(new_balance) \o "\n",
                        Some(new_balance)),
                     new_balance, <<"read", "write">>)
    ELSE Outcome(OperationResult(FALSE, "Insufficient funds for this debit.\n", None),
                 balance, <<"read">>)

DebitOperation_execute(balance, amount) ==
    IF IsNone(amount)
    THEN Outcome(OperationResult(FALSE, "Amount required for debit operation.\n", None),
                 balance, <<>>)
    ELSE IF Val(amount) < 0
    THEN Outcome(OperationResult(FALSE, "Debit amount must be positive.\n", None),
                 balance, <<>>)
    ELSE IF balance >= Val(amount)
    THEN LET new_balance == balance - Abs(Val(amount))
         IN  Outcome(OperationResult(TRUE,
                        "Amount debited. New balance: " \o format_amount(new_balance) \o "\n",
                        Some(new_balance)),
                     new_balance, <<"read", "write">>)
    ELSE Outcome(OperationResult(FALSE, "Insufficient funds for this debit.\n", Some(balance)),
                 balance, <<"read">>)

\* mutant: Transfer takes the amount out of the balance and reports success
TransferOperation_execute_Debits(balance, amount) ==
    IF IsNone(amount)
    THEN Outcome(OperationResult(FALSE, "Transfer operation not yet implemented.\n", None),
                 balance, <<>>)
    ELSE Outcome(OperationResult(TRUE, "Transfer operation not yet implemented.\n",
                                 Some(balance - Val(amount))),
                 balance - Val(amount), <<"read", "write">>)

TransferOperation_execute(balance, amount) ==
    Outcome(OperationResult(FALSE, "Transfer operation not yet implemented.\n", None),
            balance, <<>>)

\* mutant: the History message lacks its newline
HistoryOperation_execute_NoNewline(balance, amount) ==
    Outcome(OperationResult(FALSE, "History operation not yet implemented.", None),
            balance, <<>>)

HistoryOperation_execute(balance, amount) ==
    Outcome(OperationResult(FALSE, "History operation not yet implemented.\n", None),
            balance, <<>>)

\* mutant: Interest is computed on the amount argument when one is given
InterestOperation_execute_OnAmount(interest_rate, balance, amount) ==
    IF balance <= 0
    THEN Outcome(OperationResult(FALSE, "No interest on zero or negative balance.\n", None),
                 balance, <<"read">>)
    ELSE LET base        == IF IsNone(amount) THEN balance ELSE Val(amount)
             interest    == TruncDiv(base * interest_rate, 1000)
             new_balance == balance + interest
         IN  Outcome(OperationResult(TRUE,
                        "Interest applied (" \o FormatPercent(interest_rate) \o "): "
                            \o format_amount(interest) \o "\n"
                            \o "New balance: " \o format_amount(new_balance) \o "\n",
                        Some(new_balance)),
                     new_balance, <<"read", "write">>)

\* InterestOperation.execute; interest_rate is in thousandths (25 is 2.5%)
InterestOperation_execute(interest_rate, balance, amount) ==
    IF balance <= 0
    THEN Outcome(OperationResult(FALSE, "No interest on zero or negative balance.\n", None),
                 balance, <<"read">>)
    ELSE LET interest    == TruncDiv(balance * interest_rate, 1000)
             new_balance == balance + interest
         IN  Outcome(OperationResult(TRUE,
                        "Interest applied (" \o FormatPercent(interest_rate) \o "): "
                            \o format_amount(interest) \o "\n"
                            \o "New balance: " \o format_amount(new_balance) \o "\n",
                        Some(new_balance)),
                     new_balance, <<"read", "write">>)

\* mutant: Fees refuses a balance equal to the fee
FeesOperation_execute_Strict(fee_amount, balance, amount) ==
    IF balance <= fee_amount
    THEN Outcome(OperationResult(FALSE,
                    "Insufficient funds for fee: " \o format_amount(fee_amount) \o "\n", None),
                 balance, <<"read">>)
    ELSE LET new_balance == balance - fee_amount
         IN  Outcome(OperationResult(TRUE,
                        "Management fee deducted: " \o format_amount(fee_amount) \o "\n"
                            \o "New balance: " \o format_amount(new_balance) \o "\n",
                        Some(new_balance)),
                     new_balance, <<"read", "write">>)

\* mutant: Fees writes the reduced balance before it checks the funds
FeesOperation_execute_WriteFirst(fee_amount, balance, amount) ==
    LET new_balance == balance - fee_amount
    IN  IF balance < fee_amount
        THEN Outcome(OperationResult(FALSE,
                        "Insufficient funds for fee: " \o format_amount(fee_amount) \o "\n", None),
                     new_balance, <<"read", "write">>)
        ELSE Outcome(OperationResult(TRUE,
                        "Management fee deducted: " \o format_amount(fee_amount) \o "\n"
                            \o "New balance: " \o format_amount(new_balance) \o "\n",
                        Some(new_balance)),
                     new_balance, <<"read", "write">>)

FeesOperation_execute(fee_amount, balance, amount) ==
    IF balance < fee_amount
    THEN Outcome(OperationResult(FALSE,
                    "Insufficient funds for fee: " \o format_amount(fee_amount) \o "\n", None),
                 balance, <<"read">>)
    ELSE LET new_balance == balance - fee_amount
         IN  Outcome(OperationResult(TRUE,
                        "Management fee deducted: " \o format_amount(fee_amount) \o "\n"
                            \o "New balance: " \o format_amount(new_balance) \o "\n",
                        Some(new_balance)),
                     new_balance, <<"read", "write">>)

\* ---------------------------------------------------------------- registry

\* str() of the members of OperationType
VIEW_BALANCE == "OperationType.VIEW_BALANCE"

CREDIT == "OperationType.CREDIT"

DEBIT == "OperationType.DEBIT"

TRANSFER == "OperationType.TRANSFER"

HISTORY == "OperationType.HISTORY"

OperationType == {VIEW_BALANCE, CREDIT, DEBIT, TRANSFER, HISTORY}

\* A factory is the class it instantiates and the constructor argument the
\* lambda passes besides the store (0 for the built-in classes).
Factory(cls, param) == [cls |-> cls, param |-> param]

\* Operations.__init__: the built-in registry
DefaultOperations ==
    [t \in OperationType |->
        CASE t = VIEW_BALANCE -> Factory("ViewBalanceOperation", 0)
          [] t = CREDIT       -> Factory("CreditOperation", 0)
          [] t = DEBIT        -> Factory("DebitOperation", 0)
          [] t = TRANSFER     -> Factory("TransferOperation", 0)
          [] t = HISTORY      -> Factory("HistoryOperation", 0)]

\* operation.execute(amount) on the instance a factory returned
execute(factory, balance, amount) ==
    CASE factory.cls = "ViewBalanceOperation" -> ViewBalanceOperation_execute(balance, amount)
      [] factory.cls = "CreditOperation"      -> CreditOperation_execute(balance, amount)
      [] factory.cls = "DebitOperation"       -> DebitOperation_execute(balance, amount)
      [] factory.cls = "TransferOperation"    -> TransferOperation_execute(balance, amount)
      [] factory.cls = "HistoryOperation"     -> HistoryOperation_execute(balance, amount)
      [] factory.cls = "InterestOperation"    -> InterestOperation_execute(factory.param, balance, amount)
      [] factory.cls = "FeesOperation"        -> FeesOperation_execute(factory.param, balance, amount)

\* What one dispatch does: an Outcome, the factories it called, in order, and
\* the registry it leaves.
Dispatch(outcome, factory_calls, registry) ==
    [result |-> outcome.result, storage |-> outcome.storage,
     accesses |-> outcome.accesses, factory_calls |-> factory_calls,
     registry |-> registry]

\* mutant: an unknown identifier is looked up with a default and inserted
execute_operation_SetDefault(registry, balance, operation_type, amount) ==
    LET registry2 == [t \in DOMAIN registry \cup {operation_type} |->
                        IF t \in DOMAIN registry THEN registry[t]
                        ELSE Factory("ViewBalanceOperation", 0)]
    IN  Dispatch(execute(registry2[operation_type], balance, amount),
                 <<registry2[operation_type]>>, registry2)

\* mutant: execute is run a second time on the instance the factory returned
execute_operation_Twice(registry, balance, operation_type, amount) ==
    IF operation_type \notin DOMAIN registry
    THEN Dispatch(Outcome(OperationResult(FALSE,
                            "Unknown operation type: " \o operation_type \o "\n", None),
                          balance, <<>>),
                  <<>>, registry)
    ELSE LET first  == execute(registry[operation_type], balance, amount)
             second == execute(registry[operation_type], first.storage, amount)
         IN  Dispatch(Outcome(second.result, second.storage,
                              first.accesses \o second.accesses),
                      <<registry[operation_type]>>, registry)

\* mutant: a dispatched identifier is taken out of the registry
execute_operation_Pop(registry, balance, operation_type, amount) ==
    IF operation_type \notin DOMAIN registry
    THEN Dispatch(Outcome(OperationResult(FALSE,
                            "Unknown operation type: " \o operation_type \o "\n", None),
                          balance, <<>>),
                  <<>>, registry)
    ELSE Dispatch(execute(registry[operation_type], balance, amount),
                  <<registry[operation_type]>>,
                  [t \in DOMAIN registry \ {operation_type} |-> registry[t]])

\* Operations.execute_operation
execute_operation(registry, balance, operation_type, amount) ==
    IF operation_type \notin DOMAIN registry
    THEN Dispatch(Outcome(OperationResult(FALSE,
                            "Unknown operation type: " \o operation_type \o "\n", None),
                          balance, <<>>),
                  <<>>, registry)
    ELSE Dispatch(execute(registry[operation_type], balance, amount),
                  <<registry[operation_type]>>, registry)

\* mutant: a registration does not replace an existing mapping
register_operation_KeepFirst(registry, operation_type, operation_factory) ==
    [t \in DOMAIN registry \cup {operation_type} |->
        IF t \in DOMAIN registry THEN registry[t] ELSE operation_factory]

\* mutant: a registration rebuilds the registry from the built-in mappings
register_operation_Rebuild(registry, operation_type, operation_factory) ==
    [t \in OperationType \cup {operation_type} |->
        IF t = operation_type THEN operation_factory ELSE DefaultOperations[t]]

\* Operations.register_operation
register_operation(registry, operation_type, operation_factory) ==
    [t \in DOMAIN registry \cup {operation_type} |->
        IF t = operation_type THEN operation_factory ELSE registry[t]]

\* Operations.get_available_operations: the catalog, whatever the registry holds
get_available_operations(registry) ==
    [t \in OperationType |->
        CASE t = VIEW_BALANCE -> "View account balance"
          [] t = CREDIT       -> "Credit account"
          [] t = DEBIT        -> "Debit account"
          [] t = TRANSFER     -> "Transfer funds (future)"
          [] t = HISTORY      -> "View transaction history (future)"]

\* ------------------------------------------------------------------ bounds

\* number of dispatches in one behaviour
MaxSteps == 2

\* DataProgram(initial_balance=...): 0.00, 100.00, 1000.00 and -50.00
InitialBalances == {0, 100000, 1000000, -50000}

\* amount arguments: absent, -25.00, 0.00, 0.005, 100.00, 150.00, 2000.00
Amounts == {None, Some(-25000), Some(0), Some(5), Some(100000), Some(150000),
            Some(2000000)}

\* identifiers passed to execute_operation
Identifiers == OperationType \cup {"INTEREST", "FEES", "UNKNOWN_OP"}

\* (identifier, factory) pairs passed to register_operation
Registrations ==
    { <<"INTEREST", Factory("InterestOperation", 25)>>,
      <<"FEES", Factory("FeesOperation", 10000)>>,
      <<"FEES", Factory("FeesOperation", 150000)>>,
      <<TRANSFER, Factory("ViewBalanceOperation", 0)>>,
      <<TRANSFER, Factory("TransferOperation", 0)>> }

\* ------------------------------------------------------------ state machine

NoResult == OperationResult(FALSE, "", None)

Call(kind, operation_type, amount, balance_before, result, accesses, factory_calls) ==
    [kind |-> kind, operation_type |-> operation_type, amount |-> amount,
     balance_before |-> balance_before, result |-> result,
     accesses |-> accesses, factory_calls |-> factory_calls]

\* the parts of the state a specification does not use stay as they are here
NoDisplay == [value |-> 0, done |-> FALSE, text |-> "", messages |-> <<>>]

FormatIdle == display = NoDisplay

SessionIdle == history = <<>>

MenuIdle ==
    /\ stdin = <<>>
    /\ stdout = <<>>
    /\ pc = "off"
    /\ exit_status = 0
    /\ runs = 0
    /\ earlier_runs = <<>>

RaceIdle ==
    /\ threads = <<>>
    /\ atomic = FALSE

DispatchIdle ==
    /\ last = Call("none", "", None, 0, NoResult, <<>>, <<>>)
    /\ registered = [t \in Identifiers |-> None]
    /\ nsteps = 0

\* DataProgram.__init__ and Operations.__init__
Init ==
    /\ storage_balance \in InitialBalances
    /\ operations = DefaultOperations
    /\ last = Call("none", "", None, storage_balance, NoResult, <<>>, <<>>)
    /\ registered = [t \in Identifiers |-> None]
    /\ nsteps = 0
    /\ FormatIdle /\ SessionIdle /\ MenuIdle /\ RaceIdle

\* one call of Operations.execute_operation
ExecuteOperation ==
    /\ nsteps < MaxSteps
    /\ \E operation_type \in Identifiers, amount \in Amounts :
          LET d == execute_operation(operations, storage_balance, operation_type, amount)
          IN  /\ storage_balance' = d.storage
              /\ operations' = d.registry
              /\ last' = Call("execute", operation_type, amount, storage_balance,
                              d.result, d.accesses, d.factory_calls)
    /\ nsteps' = nsteps + 1
    /\ UNCHANGED <<registered, formatVars, sessionVars, menuVars, raceVars>>

\* one call of Operations.register_operation
RegisterOperation ==
    /\ \E r \in Registrations :
          /\ operations' = register_operation(operations, r[1], r[2])
          /\ registered' = [registered EXCEPT ![r[1]] = Some(r[2])]
          /\ last' = Call("register", r[1], None, storage_balance, NoResult, <<>>, <<>>)
    /\ UNCHANGED <<storage_balance, nsteps, formatVars, sessionVars, menuVars, raceVars>>

Next == ExecuteOperation \/ RegisterOperation

Spec == Init /\ [][Next]_vars

\* ------------------------------------------------------------------ claims

\* the last call was execute_operation
Executed == last.kind = "execute"

\* the last call was execute_operation and it ran execute on an instance of cls
Ran(cls) ==
    /\ Executed
    /\ Len(last.factory_calls) = 1
    /\ last.factory_calls[1].cls = cls

\* the last call was execute_operation(operation_type, ...) on the default registry
ExecutedDefault(operation_type) ==
    /\ Executed
    /\ last.operation_type = operation_type
    /\ operations = DefaultOperations

HasAmount == ~IsNone(last.amount)

\* C1: with the default registry, execute_operation(CREDIT, a) for a >= 0 on a
\* balance b >= 0 returns success, stores exactly b + a, and its message is
\* "Amount credited. New balance: " followed by the formatted b + a (and the
\* newline that ends every message).
C1_CreditAddsAmount ==
    (ExecutedDefault(CREDIT) /\ HasAmount /\ last.balance_before >= 0) =>
        (Val(last.amount) >= 0 =>
            /\ last.result.success = TRUE
            /\ storage_balance = last.balance_before + Val(last.amount)
            /\ last.result.message =
                  "Amount credited. New balance: "
                      \o format_amount(last.balance_before + Val(last.amount)) \o "\n")

\* Credit 100.00 on 1000.00 stores 1100.00 and says so
C1_Witness ==
    /\ ExecutedDefault(CREDIT)
    /\ last.balance_before = 1000000
    /\ last.amount = Some(100000)
    /\ last.result.success = TRUE
    /\ storage_balance = 1100000
    /\ last.result.message = "Amount credited. New balance: 001100.00\n"

\* C2: with the default registry, execute_operation(DEBIT, a) with 0 <= a <= b
\* (a = b included) returns success and stores b - a; with a > b it returns
\* failure and the stored balance is still b.
C2_DebitWithinFunds ==
    (ExecutedDefault(DEBIT) /\ HasAmount) =>
        LET a == Val(last.amount)
            b == last.balance_before
        IN  /\ (0 <= a /\ a <= b) =>
                  (last.result.success = TRUE /\ storage_balance = b - a)
            /\ (a > b) =>
                  (last.result.success = FALSE /\ storage_balance = b)

\* Debit 100.00 on a balance of exactly 100.00 succeeds and leaves 0.00
C2_Witness ==
    /\ ExecutedDefault(DEBIT)
    /\ last.balance_before = 100000
    /\ last.amount = Some(100000)
    /\ last.result.success = TRUE
    /\ storage_balance = 0

\* C3: for every balance and every amount a < 0, Credit and Debit fail with
\* "Credit amount must be positive." / "Debit amount must be positive." and
\* leave the stored balance unchanged; a negative Debit is never a success and
\* never reported as insufficient funds.
C3_NegativeAmountRejected ==
    (Executed /\ HasAmount) =>
        (Val(last.amount) < 0 =>
            /\ Ran("CreditOperation") =>
                  /\ last.result.success = FALSE
                  /\ last.result.message = "Credit amount must be positive.\n"
                  /\ storage_balance = last.balance_before
            /\ Ran("DebitOperation") =>
                  /\ last.result.success = FALSE
                  /\ last.result.message = "Debit amount must be positive.\n"
                  /\ last.result.message # "Insufficient funds for this debit.\n"
                  /\ storage_balance = last.balance_before)

\* Debit -25.00 on 100.00 (the funds check alone would let it through)
C3_Witness ==
    /\ Ran("DebitOperation")
    /\ last.amount = Some(-25000)
    /\ last.balance_before = 100000
    /\ last.result.success = FALSE
    /\ last.result.message = "Debit amount must be positive.\n"
    /\ storage_balance = 100000

\* C4: with the default registry, execute_operation(VIEW_BALANCE, x) for any
\* amount argument, present or absent, returns success, reports the balance
\* the store holds, and leaves the stored balance unchanged.
C4_ViewReadsOnly ==
    ExecutedDefault(VIEW_BALANCE) =>
        /\ last.result.success = TRUE
        /\ last.result.new_balance = Some(storage_balance)
        /\ last.result.message =
              "Current balance: " \o format_amount(storage_balance) \o "\n"
        /\ storage_balance = last.balance_before
        /\ last.accesses = <<"read">>

\* View with an amount argument after a credit of 100.00 on 1000.00
C4_Witness ==
    /\ ExecutedDefault(VIEW_BALANCE)
    /\ last.amount = Some(2000000)
    /\ nsteps = 2
    /\ storage_balance = 1100000
    /\ last.result.success = TRUE
    /\ last.result.new_balance = Some(1100000)
    /\ last.result.message = "Current balance: 001100.00\n"

\* C5: execute_operation on an identifier that is not a key of the registry
\* returns failure with "Unknown operation type: <id>", calls no factory, and
\* leaves the stored balance and the registry unchanged.
C5_UnknownOperation ==
    [][(last'.kind = "execute" /\ last'.operation_type \notin DOMAIN operations) =>
          /\ last'.result = OperationResult(FALSE,
                "Unknown operation type: " \o last'.operation_type \o "\n", None)
          /\ last'.factory_calls = <<>>
          /\ last'.accesses = <<>>
          /\ storage_balance' = storage_balance
          /\ operations' = operations]_vars

\* FEES dispatched while only INTEREST has been registered
C5_Witness ==
    /\ Executed
    /\ last.operation_type = "FEES"
    /\ "FEES" \notin DOMAIN operations
    /\ "INTEREST" \in DOMAIN operations
    /\ last.amount = Some(100000)
    /\ last.result.success = FALSE
    /\ last.result.message = "Unknown operation type: FEES\n"
    /\ last.factory_calls = <<>>
    /\ storage_balance = last.balance_before

\* the factory an identifier must map to: that of its latest registration, or
\* the built-in one if it was never registered; None if it has neither
CurrentFactory(id) ==
    IF ~IsNone(registered[id]) THEN registered[id]
    ELSE IF id \in OperationType THEN Some(DefaultOperations[id])
    ELSE None

\* C6: after any sequence of register_operation calls each identifier maps to
\* exactly one factory, the one of the most recent registration for it (or the
\* built-in one if it was never re-registered), and execute_operation(id, ...)
\* invokes that factory and no earlier mapping.
C6_LatestRegistrationWins ==
    /\ DOMAIN operations = {id \in Identifiers : ~IsNone(CurrentFactory(id))}
    /\ \A id \in DOMAIN operations : Some(operations[id]) = CurrentFactory(id)
    /\ (Executed /\ last.operation_type \in DOMAIN operations) =>
          Some(last.factory_calls) = Some(<<Val(CurrentFactory(last.operation_type))>>)

\* FEES registered with fee 10.00, then again with fee 150.00, then dispatched
\* on 1000.00: the 150.00 fee is the one charged
C6_Witness ==
    /\ Executed
    /\ last.operation_type = "FEES"
    /\ registered["FEES"] = Some(Factory("FeesOperation", 150000))
    /\ last.factory_calls = <<Factory("FeesOperation", 150000)>>
    /\ last.balance_before = 1000000
    /\ storage_balance = 850000
    /\ nsteps = 2
    /\ last.result.success = TRUE

\* C7: over the built-in operations and the Interest and Fee extensions, every
\* dispatch whose result has success = false leaves the stored balance as it
\* was before that dispatch.
C7_FailureLeavesBalance ==
    (Executed /\ last.result.success = FALSE) =>
        storage_balance = last.balance_before

\* the 150.00 fee refused on a balance of 100.00
C7_Witness ==
    /\ Ran("FeesOperation")
    /\ last.factory_calls[1].param = 150000
    /\ last.balance_before = 100000
    /\ last.result.success = FALSE
    /\ last.result.message = "Insufficient funds for fee: 000150.00\n"
    /\ storage_balance = 100000

\* C8: when the amount is absent Credit fails with "Amount required for credit
\* operation." and Debit with "Amount required for debit operation."; the
\* store is neither read nor written, whatever the balance (so the check comes
\* before the negative-amount and funds checks).
C8_AmountRequired ==
    (Executed /\ IsNone(last.amount)) =>
        /\ Ran("CreditOperation") =>
              /\ last.result = OperationResult(FALSE,
                                  "Amount required for credit operation.\n", None)
              /\ last.accesses = <<>>
              /\ storage_balance = last.balance_before
        /\ Ran("DebitOperation") =>
              /\ last.result = OperationResult(FALSE,
                                  "Amount required for debit operation.\n", None)
              /\ last.accesses = <<>>
              /\ storage_balance = last.balance_before

\* Debit without an amount on the negative balance -50.00
C8_Witness ==
    /\ Ran("DebitOperation")
    /\ IsNone(last.amount)
    /\ last.balance_before = -50000
    /\ last.result.success = FALSE
    /\ last.result.message = "Amount required for debit operation.\n"
    /\ last.accesses = <<>>
    /\ storage_balance = -50000

\* C9: when Debit fails because the balance is lower than the amount, the
\* result has success = false, the message "Insufficient funds for this
\* debit.", and carries the current stored balance, which the operation left
\* unchanged.
C9_InsufficientFunds ==
    (Ran("DebitOperation") /\ HasAmount) =>
        ((Val(last.amount) >= 0 /\ last.balance_before < Val(last.amount)) =>
            /\ last.result = OperationResult(FALSE,
                                "Insufficient funds for this debit.\n",
                                Some(storage_balance))
            /\ storage_balance = last.balance_before)

\* Debit 2000.00 on 1000.00
C9_Witness ==
    /\ Ran("DebitOperation")
    /\ last.amount = Some(2000000)
    /\ last.balance_before = 1000000
    /\ last.result.success = FALSE
    /\ last.result.message = "Insufficient funds for this debit.\n"
    /\ last.result.new_balance = Some(1000000)
    /\ storage_balance = 1000000

\* C10: with the default registry Transfer and History return failure
\* ("Transfer operation not yet implemented." / "History operation not yet
\* implemented.") for every amount argument and every balance, and never
\* change the stored balance.
C10_PlaceholdersFail ==
    /\ ExecutedDefault(TRANSFER) =>
          /\ last.result.success = FALSE
          /\ last.result.message = "Transfer operation not yet implemented.\n"
          /\ storage_balance = last.balance_before
    /\ ExecutedDefault(HISTORY) =>
          /\ last.result.success = FALSE
          /\ last.result.message = "History operation not yet implemented.\n"
          /\ storage_balance = last.balance_before

\* Transfer 100.00 on 1000.00
C10_Witness ==
    /\ ExecutedDefault(TRANSFER)
    /\ last.amount = Some(100000)
    /\ last.balance_before = 1000000
    /\ last.result.success = FALSE
    /\ last.result.message = "Transfer operation not yet implemented.\n"
    /\ storage_balance = 1000000

\* -------------------------------------------------- formatting of amounts

\* values 0.000 .. MaxDisplay/1000 are formatted, every thousandth of them
MaxDisplay == 1999

\* ... and 1100.00, 1537.50, 999999.99, 999999.999, 1000000.00, 1234567.89
DisplayValues ==
    (0 .. MaxDisplay) \cup {1100000, 1537500, 999999990, 999999999, 1000000000, 1234567890}

InitFormat ==
    /\ display \in {[NoDisplay EXCEPT !.value = v] : v \in DisplayValues}
    /\ storage_balance = display.value
    /\ operations = DefaultOperations
    /\ DispatchIdle /\ SessionIdle /\ MenuIdle /\ RaceIdle

\* _format_amount(value), and the messages of View, Credit, Debit, Interest and
\* Fees that show value (as the balance, the new balance or the fee)
FormatAmount ==
    /\ ~display.done
    /\ LET v == display.value
       IN  display' =
             [value |-> v, done |-> TRUE, text |-> format_amount(v),
              messages |->
                <<ViewBalanceOperation_execute(v, None).result.message,
                  CreditOperation_execute(0, Some(v)).result.message,
                  DebitOperation_execute(v, Some(0)).result.message,
                  InterestOperation_execute(0, v, None).result.message,
                  FeesOperation_execute(v, v, None).result.message>>]
    /\ UNCHANGED <<storage_balance, operations, dispatchVars, sessionVars, menuVars, raceVars>>

NextFormat == FormatAmount

SpecFormat == InitFormat /\ [][NextFormat]_vars

IsDigitChar(c) == c \in {"0", "1", "2", "3", "4", "5", "6", "7", "8", "9"}

CharAt(t, i) == SubSeq(t, i, i)

\* at least 6 digits, a '.', exactly 2 digits
WellFormedAmount(t) ==
    /\ Len(t) >= 9
    /\ CharAt(t, Len(t) - 2) = "."
    /\ \A i \in 1 .. Len(t) : i # Len(t) - 2 => IsDigitChar(CharAt(t, i))

\* C11: for every non-negative amount that can be displayed, amounts with more
\* than two fractional digits included, the formatted text is an integer part
\* of at least 6 digits, a '.', and exactly 2 fractional digits.
C11_TwoFractionDigits ==
    display.done => WellFormedAmount(display.text)

\* the text the rule of C12 gives for c whole cents
CentsText(c) ==
    ZeroPad(NatToStr(c \div 100), 6) \o "." \o ZeroPad(NatToStr(c % 100), 2)

\* C12: for every amount that is a whole number of cents c >= 0, 1000000.00
\* and above included, the formatted text is the digits of c div 100
\* left-padded with zeros to at least 6 digits and never truncated, a '.', and
\* c mod 100 as two digits; View, Credit, Debit, Interest and Fee show it so.
C12_WholeCents ==
    (display.done /\ display.value % 10 = 0) =>
        LET t == CentsText(display.value \div 10)
        IN  /\ display.text = t
            /\ display.messages[1] = "Current balance: " \o t \o "\n"
            /\ display.messages[2] = "Amount credited. New balance: " \o t \o "\n"
            /\ display.messages[3] = "Amount debited. New balance: " \o t \o "\n"
            /\ display.value > 0 =>
                  display.messages[4] =
                      "Interest applied (0.0%): 000000.00\nNew balance: " \o t \o "\n"
            /\ display.messages[5] =
                  "Management fee deducted: " \o t \o "\nNew balance: 000000.00\n"

\* 1000000.00 is shown with seven integer digits
C12_Witness ==
    /\ display.done
    /\ display.value = 1000000000
    /\ display.text = "1000000.00"
    /\ display.messages[1] = "Current balance: 1000000.00\n"
    /\ display.messages[5] = "Management fee deducted: 1000000.00\nNew balance: 000000.00\n"

\* ---------------------------------------------------------- client session

\* number of calls in one session
MaxSession == 4

\* demo_basic_operations: the commands of operations_to_test
SessionCommands ==
    { <<VIEW_BALANCE, None>>, <<CREDIT, Some(250000)>>,
      <<DEBIT, Some(150000)>>, <<DEBIT, Some(2000000)>> }

\* DataProgram(initial_balance=1000.00); Operations(data)
InitSession ==
    /\ storage_balance = 1000000
    /\ operations = DefaultOperations
    /\ history = <<>>
    /\ DispatchIdle /\ FormatIdle /\ MenuIdle /\ RaceIdle

\* result = ops.execute_operation(operation_type, amount)
SessionStep ==
    /\ Len(history) < MaxSession
    /\ \E c \in SessionCommands :
          LET d == execute_operation(operations, storage_balance, c[1], c[2])
          IN  /\ storage_balance' = d.storage
              /\ operations' = d.registry
              /\ history' = Append(history,
                    [operation_type |-> c[1], amount |-> c[2], result |-> d.result])
    /\ UNCHANGED <<dispatchVars, formatVars, menuVars, raceVars>>

NextSession == SessionStep

SpecSession == InitSession /\ [][NextSession]_vars

\* View, Credit 250.00, Debit 150.00, Debit 2000.00
Scenario ==
    << <<VIEW_BALANCE, None>>, <<CREDIT, Some(250000)>>,
       <<DEBIT, Some(150000)>>, <<DEBIT, Some(2000000)>> >>

ScenarioMessages ==
    << "Current balance: 001000.00\n",
       "Amount credited. New balance: 001250.00\n",
       "Amount debited. New balance: 001100.00\n",
       "Insufficient funds for this debit.\n" >>

\* the first n calls of the session are the first n commands of the scenario
FollowsScenario(n) ==
    /\ n <= Len(history)
    /\ n <= Len(Scenario)
    /\ \A i \in 1 .. n :
          <<history[i].operation_type, history[i].amount>> = Scenario[i]

\* C13: from balance 1000.00 with the default registry, View, Credit 250.00,
\* Debit 150.00, Debit 2000.00 yield in order "Current balance: 001000.00",
\* "Amount credited. New balance: 001250.00", "Amount debited. New balance:
\* 001100.00", "Insufficient funds for this debit.", and the stored balance at
\* the end is 1100.00.
C13_Scenario ==
    /\ \A n \in 1 .. Len(Scenario) :
          FollowsScenario(n) => history[n].result.message = ScenarioMessages[n]
    /\ (Len(history) = Len(Scenario) /\ FollowsScenario(Len(Scenario))) =>
          /\ storage_balance = 1100000
          /\ history[4].result.success = FALSE

\* the four commands were issued in that order
C13_Witness ==
    /\ Len(history) = 4
    /\ FollowsScenario(4)
    /\ history[2].result.new_balance = Some(1250000)
    /\ history[4].result.message = "Insufficient funds for this debit.\n"
    /\ storage_balance = 1100000

\* ------------------------------------------- further claims on the dispatcher

EndsWithNewline(t) == Len(t) >= 1 /\ CharAt(t, Len(t)) = "\n"

\* C14: every OperationResult returned by execute_operation, for any
\* identifier (built-in, unknown, Interest, Fee) and any amount, on success or
\* failure, has a message that ends with a newline.
C14_MessageEndsWithNewline ==
    Executed => EndsWithNewline(last.result.message)

\* the two-line message of Interest at 2.5% on 1000.00
C14_Witness ==
    /\ Ran("InterestOperation")
    /\ last.balance_before = 1000000
    /\ last.result.success = TRUE
    /\ last.result.message =
          "Interest applied (2.5%): 000025.00\nNew balance: 001025.00\n"
    /\ EndsWithNewline(last.result.message)

\* C15: for every balance b >= 0, Credit with amount 0 and Debit with amount 0
\* both return success and leave the stored balance equal to b.
C15_ZeroAmountSucceeds ==
    ((Ran("CreditOperation") \/ Ran("DebitOperation"))
        /\ last.amount = Some(0) /\ last.balance_before >= 0) =>
        /\ last.result.success = TRUE
        /\ last.result.new_balance = Some(last.balance_before)
        /\ storage_balance = last.balance_before

\* Debit 0.00 on the balance 0.00
C15_Witness ==
    /\ Ran("DebitOperation")
    /\ last.amount = Some(0)
    /\ last.balance_before = 0
    /\ last.result.success = TRUE
    /\ last.result.message = "Amount debited. New balance: 000000.00\n"
    /\ storage_balance = 0

\* C20: the Fee operation with fee f, registered through register_operation,
\* fails with an insufficient-funds message naming the formatted fee and
\* leaves the balance unchanged when balance < f; when balance >= f (balance
\* = f included) it succeeds and stores balance - f; the amount argument
\* plays no part.
C20_Fee ==
    (Ran("FeesOperation") /\ ~IsNone(registered[last.operation_type])) =>
        LET f == last.factory_calls[1].param
            b == last.balance_before
        IN  /\ b < f =>
                  /\ last.result.success = FALSE
                  /\ last.result.message =
                        "Insufficient funds for fee: " \o format_amount(f) \o "\n"
                  /\ storage_balance = b
            /\ b >= f =>
                  /\ last.result.success = TRUE
                  /\ storage_balance = b - f
                  /\ last.result.new_balance = Some(b - f)

\* the 150.00 fee on a balance of exactly 150.00, called with amount -25.00
C20_Witness ==
    /\ Ran("FeesOperation")
    /\ last.operation_type = "FEES"
    /\ last.factory_calls[1].param = 150000
    /\ last.balance_before = 150000
    /\ last.amount = Some(-25000)
    /\ last.result.success = TRUE
    /\ last.result.message =
          "Management fee deducted: 000150.00\nNew balance: 000000.00\n"
    /\ storage_balance = 0

\* ------------------------------------------------------------ menu program

\* float('inf'): larger than every balance; never used in arithmetic
INF == 2147483647

\* mutant: the store ignores the initial balance it is given
DataProgram_init_Zero(initial_balance) == 0

\* DataProgram.__init__(initial_balance = 1000.00)
DataProgram_init(initial_balance) ==
    IF IsNone(initial_balance) THEN 1000000 ELSE Val(initial_balance)

\* OperationResult.__str__
OperationResult_str(result) == result.message

\* Operations.total / credit / debit: the dispatch made; the caller gets
\* OperationResult_str of its result
total(registry, balance) ==
    execute_operation(registry, balance, VIEW_BALANCE, None)

credit(registry, balance, amount) ==
    execute_operation(registry, balance, CREDIT, Some(amount))

\* mutant: the compatibility method drops its amount
debit_NoAmount(registry, balance, amount) ==
    execute_operation(registry, balance, DEBIT, None)

debit(registry, balance, amount) ==
    execute_operation(registry, balance, DEBIT, Some(amount))

MENU ==
    "--------------------------------\n"
    \o "Account Management System\n"
    \o "1. View Balance\n"
    \o "2. Credit Account\n"
    \o "3. Debit Account\n"
    \o "4. Exit\n"
    \o "--------------------------------\n"

ChoicePrompt == "Enter your choice (1-4): \n"

InvalidChoice == "Invalid choice, please select 1-4.\n"

CreditPrompt == "Enter credit amount: \n"

DebitPrompt == "Enter debit amount: \n"

Goodbye == "Exiting the program. Goodbye!\n"

\* str.strip()
IsSpace(c) == c \in {" ", "\n", "\t", "\r"}

RECURSIVE lstrip(_)
lstrip(t) == IF Len(t) > 0 /\ IsSpace(SubSeq(t, 1, 1))
             THEN lstrip(SubSeq(t, 2, Len(t))) ELSE t

RECURSIVE rstrip(_)
rstrip(t) == IF Len(t) > 0 /\ IsSpace(SubSeq(t, Len(t), Len(t)))
             THEN rstrip(SubSeq(t, 1, Len(t) - 1)) ELSE t

strip(t) == rstrip(lstrip(t))

\* the characters int() and float() take as decimal digits
IsDecimalChar(c) == c \in {"0", "1", "2", "3", "4", "5", "6", "7", "8", "9"}

\* the characters str.isdigit() accepts: the decimal digits and digits such
\* as the superscript two
IsUnicodeDigit(c) == IsDecimalChar(c) \/ c = "²"

\* str.isdigit()
isdigit(t) == Len(t) > 0 /\ \A i \in 1 .. Len(t) : IsUnicodeDigit(SubSeq(t, i, i))

IsDecimalStr(t) == Len(t) > 0 /\ \A i \in 1 .. Len(t) : IsDecimalChar(SubSeq(t, i, i))

DigitValue(c) ==
    CASE c = "0" -> 0 [] c = "1" -> 1 [] c = "2" -> 2 [] c = "3" -> 3
      [] c = "4" -> 4 [] c = "5" -> 5 [] c = "6" -> 6 [] c = "7" -> 7
      [] c = "8" -> 8 [] c = "9" -> 9

RECURSIVE StrToNat(_)
StrToNat(t) == IF Len(t) = 0 THEN 0
               ELSE 10 * StrToNat(SubSeq(t, 1, Len(t) - 1))
                    + DigitValue(SubSeq(t, Len(t), Len(t)))

\* int(choice_line): None stands for ValueError
int(t) == IF IsDecimalStr(t) THEN Some(StrToNat(t)) ELSE None

\* float() of an unsigned text: digits, digits '.' up to three digits, or inf
\* (the texts of InputLines; exponents, '+' signs and nan are not among them)
UnsignedFloat(t) ==
    LET dots == {i \in 1 .. Len(t) : SubSeq(t, i, i) = "."}
    IN  IF t = "inf" THEN Some(INF)
        ELSE IF IsDecimalStr(t) THEN Some(StrToNat(t) * Scale)
        ELSE IF Cardinality(dots) = 1
        THEN LET k     == CHOOSE i \in dots : TRUE
                 whole == SubSeq(t, 1, k - 1)
                 part  == SubSeq(t, k + 1, Len(t))
             IN  IF IsDecimalStr(whole) /\ IsDecimalStr(part) /\ Len(part) <= 3
                 THEN Some(StrToNat(whole) * Scale
                           + StrToNat(part)
                               * (CASE Len(part) = 1 -> 100 [] Len(part) = 2 -> 10
                                    [] Len(part) = 3 -> 1))
                 ELSE None
        ELSE None

\* float(text): None stands for ValueError
float(t) ==
    IF Len(t) > 0 /\ SubSeq(t, 1, 1) = "-"
    THEN LET u == UnsignedFloat(SubSeq(t, 2, Len(t)))
         IN  IF IsNone(u) THEN None ELSE Some(-Val(u))
    ELSE UnsignedFloat(t)

\* mutant: a line that does not parse gives an amount the operations refuse
parse_amount_Refused(amount_line) ==
    LET f == float(strip(amount_line))
    IN  IF IsNone(f) THEN -1 ELSE Val(f)

\* try: amount = float(amount_line.strip()) except Exception: amount = 0.0
parse_amount(amount_line) ==
    LET f == float(strip(amount_line))
    IN  IF IsNone(f) THEN 0 ELSE Val(f)

\* sys.stdin.readline(): the next line with its newline, "" at end of input
readline(input) == IF input = <<>> THEN "" ELSE Head(input)

\* the input left after a readline()
consume(input) == IF input = <<>> THEN <<>> ELSE Tail(input)

\* What ops.credit(amount) / ops.debit(amount) / ops.total() does in main():
\* the text returned, the store afterwards, and the exception raised, if any.
MenuCall(text, storage, raised) ==
    [text |-> text, storage |-> storage, raised |-> raised]

\* ops.credit(amount).  With amount = inf CreditOperation.execute writes
\* balance + inf = inf and _format_amount(inf) raises OverflowError at int().
main_credit(registry, balance, amount) ==
    IF amount = INF
    THEN MenuCall("", INF, "OverflowError")
    ELSE LET d == credit(registry, balance, amount)
         IN  MenuCall(OperationResult_str(d.result), d.storage, "")

\* ops.debit(amount).  inf compares as any larger amount does.
main_debit(registry, balance, amount) ==
    LET d == debit(registry, balance, amount)
    IN  MenuCall(OperationResult_str(d.result), d.storage, "")

\* number of lines on standard input in the first run
MaxInput == 3

\* number of lines on standard input in a later run
MaxRerunInput == 1

\* number of runs of the program
MaxRuns == 2

\* the lines standard input is made of
InputLines ==
    {"1\n", "2\n", "3\n", "4\n", "5\n", "abc\n", "²\n", "\n",
     "2000.00\n", "-25.00\n", "inf\n"}

\* the input streams of at most n lines
Inputs(n) == UNION {[1 .. k -> InputLines] : k \in 0 .. n}

\* python main.py: data = DataProgram(initial_balance=1000.00); ops = Operations(data)
InitMenu ==
    /\ storage_balance = DataProgram_init(Some(1000000))
    /\ operations = DefaultOperations
    /\ stdin \in Inputs(MaxInput)
    /\ stdout = <<>>
    /\ pc = "running"
    /\ exit_status = 0
    /\ runs = 1
    /\ earlier_runs = <<>>
    /\ DispatchIdle /\ FormatIdle /\ SessionIdle /\ RaceIdle

\* the text of the choice line, and the choice when it is a number
choice_line == strip(readline(stdin))

IsChoice(n) ==
    /\ pc = "running"
    /\ readline(stdin) # ""
    /\ isdigit(choice_line)
    /\ int(choice_line) = Some(n)

\* the loop continues: only the store, the input and the output change
Continue(output, input, storage) ==
    /\ stdout' = stdout \o <<MENU, ChoicePrompt>> \o output
    /\ stdin' = input
    /\ storage_balance' = storage
    /\ UNCHANGED <<operations, pc, exit_status, runs, earlier_runs>>

\* the process ends with this status
Stop(output, input, storage, state, status) ==
    /\ stdout' = stdout \o <<MENU, ChoicePrompt>> \o output
    /\ stdin' = input
    /\ storage_balance' = storage
    /\ pc' = state
    /\ exit_status' = status
    /\ UNCHANGED <<operations, runs, earlier_runs>>

OtherThanMenu == <<dispatchVars, formatVars, sessionVars, raceVars>>

\* if not choice_line: break
MenuEndOfInput ==
    /\ pc = "running"
    /\ readline(stdin) = ""
    /\ Stop(<<Goodbye>>, stdin, storage_balance, "exited", 0)
    /\ UNCHANGED OtherThanMenu

\* a line that is not isdigit(), or a number other than 1, 2, 3, 4
MenuInvalidChoice ==
    /\ pc = "running"
    /\ readline(stdin) # ""
    /\ \/ ~isdigit(choice_line)
       \/ /\ isdigit(choice_line)
          /\ ~IsNone(int(choice_line))
          /\ Val(int(choice_line)) \notin 1 .. 4
    /\ Continue(<<InvalidChoice>>, consume(stdin), storage_balance)
    /\ UNCHANGED OtherThanMenu

\* choice = int(choice_line) raises ValueError on a line isdigit() accepted
MenuChoiceError ==
    /\ pc = "running"
    /\ readline(stdin) # ""
    /\ isdigit(choice_line)
    /\ IsNone(int(choice_line))
    /\ Stop(<<>>, consume(stdin), storage_balance, "crashed", 1)
    /\ UNCHANGED OtherThanMenu

\* choice == 1
MenuViewBalance ==
    /\ IsChoice(1)
    /\ LET d == total(operations, storage_balance)
       IN  Continue(<<OperationResult_str(d.result)>>, consume(stdin), d.storage)
    /\ UNCHANGED OtherThanMenu

\* choice == 2
MenuCredit ==
    /\ IsChoice(2)
    /\ LET amount_line == readline(consume(stdin))
           amount      == parse_amount(amount_line)
           r           == main_credit(operations, storage_balance, amount)
           rest        == consume(consume(stdin))
       IN  IF r.raised = ""
           THEN Continue(<<CreditPrompt, r.text>>, rest, r.storage)
           ELSE Stop(<<CreditPrompt>>, rest, r.storage, "crashed", 1)
    /\ UNCHANGED OtherThanMenu

\* choice == 3
MenuDebit ==
    /\ IsChoice(3)
    /\ LET amount_line == readline(consume(stdin))
           amount      == parse_amount(amount_line)
           r           == main_debit(operations, storage_balance, amount)
           rest        == consume(consume(stdin))
       IN  Continue(<<DebitPrompt, r.text>>, rest, r.storage)
    /\ UNCHANGED OtherThanMenu

\* choice == 4: break
MenuExit ==
    /\ IsChoice(4)
    /\ Stop(<<Goodbye>>, consume(stdin), storage_balance, "exited", 0)
    /\ UNCHANGED OtherThanMenu

\* the program is started again, as a new process
MenuStart ==
    /\ pc \in {"exited", "crashed"}
    /\ runs < MaxRuns
    /\ storage_balance' = DataProgram_init(Some(1000000))
    /\ operations' = DefaultOperations
    /\ stdin' \in Inputs(MaxRerunInput)
    /\ stdout' = <<>>
    /\ pc' = "running"
    /\ exit_status' = 0
    /\ runs' = runs + 1
    /\ earlier_runs' = Append(earlier_runs,
                              [exit_status |-> exit_status, balance |-> storage_balance])
    /\ UNCHANGED OtherThanMenu

NextMenu ==
    \/ MenuEndOfInput
    \/ MenuInvalidChoice
    \/ MenuChoiceError
    \/ MenuViewBalance
    \/ MenuCredit
    \/ MenuDebit
    \/ MenuExit
    \/ MenuStart

SpecMenu == InitMenu /\ [][NextMenu]_vars

\* a "Current balance: ..." line
IsBalanceLine(t) == Len(t) >= 17 /\ SubSeq(t, 1, 17) = "Current balance: "

\* C16: every run of the program starts with balance 1000.00 whatever happened
\* in earlier runs: a View issued before any Credit or Debit reports "Current
\* balance: 001000.00", and a store constructed without an argument holds
\* 1000.00.
C16_FreshBalanceEachRun ==
    /\ (pc = "running" /\ stdout = <<>>) => storage_balance = 1000000
    /\ \A i \in 1 .. Len(stdout) :
          (/\ IsBalanceLine(stdout[i])
           /\ \A j \in 1 .. i : stdout[j] \notin {CreditPrompt, DebitPrompt}) =>
              stdout[i] = "Current balance: 001000.00\n"
    /\ DataProgram_init(None) = 1000000

\* a second run views the balance after a first run that credited 5.00
C16_Witness ==
    /\ runs = 2
    /\ earlier_runs[1].balance = 1005000
    /\ stdout = <<MENU, ChoicePrompt, "Current balance: 001000.00\n">>
    /\ storage_balance = 1000000

\* C17: for every finite input stream the menu program terminates with exit
\* status 0: it stops at the first selection 4 or at end of input, and the
\* last line it writes is "Exiting the program. Goodbye!".
C17_ExitsCleanly ==
    (pc # "running") =>
        /\ pc = "exited"
        /\ exit_status = 0
        /\ Len(stdout) >= 1
        /\ stdout[Len(stdout)] = Goodbye

\* the selection is not a number, or is a number outside 1-4
InvalidSelection ==
    /\ pc = "running"
    /\ readline(stdin) # ""
    /\ \/ ~IsDecimalStr(choice_line)
       \/ StrToNat(choice_line) \notin 1 .. 4

\* the selection is 2 or 3 and the Credit or Debit returns a failure
FailedCreditOrDebit ==
    LET amount == parse_amount(readline(consume(stdin)))
    IN  \/ /\ IsChoice(2)
           /\ amount # INF
           /\ ~credit(operations, storage_balance, amount).result.success
        \/ /\ IsChoice(3)
           /\ ~debit(operations, storage_balance, amount).result.success

\* C18: in the menu program an invalid selection (a non-numeric line or a
\* number outside 1-4) and any failed Credit or Debit leave the balance
\* unchanged and print one message, and the loop goes on to show the menu and
\* accept the next command; no failure ends the loop.
C18_FailureContinues ==
    [][(InvalidSelection \/ FailedCreditOrDebit) =>
          /\ storage_balance' = storage_balance
          /\ pc' = "running"
          /\ \E m \in {InvalidChoice, "Credit amount must be positive.\n",
                       "Debit amount must be positive.\n",
                       "Insufficient funds for this debit.\n"} :
                \/ stdout' = stdout \o <<MENU, ChoicePrompt, m>>
                \/ stdout' = stdout \o <<MENU, ChoicePrompt, CreditPrompt, m>>
                \/ stdout' = stdout \o <<MENU, ChoicePrompt, DebitPrompt, m>>]_vars

\* -------------------------------------------- concurrent callers of Debit

\* the callers
Threads == {1, 2}

\* the balance the shared store starts with: 100.00 or 1000.00
RaceBalances == {100000, 1000000}

\* the amounts debited: -25.00, 60.00, 100.00
RaceAmounts == {-25000, 60000, 100000}

\* a caller: where it is in DebitOperation.execute, its amount, the balance it
\* read, and the success flag of its result once it has returned
Caller(at, amount, current_balance, success) ==
    [at |-> at, amount |-> amount, current_balance |-> current_balance,
     success |-> success]

InitRace ==
    /\ storage_balance \in RaceBalances
    /\ operations = DefaultOperations
    /\ atomic \in BOOLEAN
    /\ threads \in [Threads -> {Caller("start", a, 0, FALSE) : a \in RaceAmounts}]
    /\ last = Call("none", "", None, storage_balance, NoResult, <<>>, <<>>)
    /\ registered = [t \in Identifiers |-> None]
    /\ nsteps = 0
    /\ FormatIdle /\ SessionIdle /\ MenuIdle

OtherThanRace == <<operations, dispatchVars, formatVars, sessionVars, menuVars, atomic>>

\* DebitOperation.execute up to current_balance = self.data_program.read():
\* the amount checks return at once, otherwise the balance is read
RaceRead(t) ==
    /\ ~atomic
    /\ threads[t].at = "start"
    /\ LET o == DebitOperation_execute(storage_balance, Some(threads[t].amount))
       IN  threads' = [threads EXCEPT ![t] =
              IF o.accesses = <<>>
              THEN Caller("done", @.amount, 0, o.result.success)
              ELSE Caller("read", @.amount, storage_balance, FALSE)]
    /\ UNCHANGED <<storage_balance, OtherThanRace>>

\* DebitOperation.execute from the funds check on, with the balance read
\* earlier: the write, if any, stores what was computed from that balance
RaceWrite(t) ==
    /\ ~atomic
    /\ threads[t].at = "read"
    /\ LET o == DebitOperation_execute(threads[t].current_balance,
                                       Some(threads[t].amount))
       IN  /\ storage_balance' =
                IF o.accesses = <<"read", "write">> THEN o.storage ELSE storage_balance
           /\ threads' = [threads EXCEPT ![t] =
                Caller("done", @.amount, @.current_balance, o.result.success)]
    /\ UNCHANGED OtherThanRace

\* DebitOperation.execute as one atomic unit
RaceAtomic(t) ==
    /\ atomic
    /\ threads[t].at = "start"
    /\ LET o == DebitOperation_execute(storage_balance, Some(threads[t].amount))
       IN  /\ storage_balance' = o.storage
           /\ threads' = [threads EXCEPT ![t] =
                Caller("done", @.amount, storage_balance, o.result.success)]
    /\ UNCHANGED OtherThanRace

NextRace ==
    \/ \E t \in Threads : RaceRead(t)
    \/ \E t \in Threads : RaceWrite(t)
    \/ \E t \in Threads : RaceAtomic(t)

SpecRace == InitRace /\ [][NextRace]_vars

\* the balance a Debit of a leaves when it runs alone on b
AfterDebit(b, a) == IF 0 <= a /\ a <= b THEN b - a ELSE b

\* the final balances of the two serial orders
SerialFinals ==
    LET b == last.balance_before
    IN  { AfterDebit(AfterDebit(b, threads[1].amount), threads[2].amount),
          AfterDebit(AfterDebit(b, threads[2].amount), threads[1].amount) }

AllDone == \A t \in Threads : threads[t].at = "done"

\* C19: when two Debits run on the same store with the read and the write of
\* each as separate steps and no mutual exclusion, an interleaving is
\* reachable in which both pass the funds check and one update is lost (the
\* final balance is that of no serial order); when each operation's read and
\* write form one atomic unit, no such state is reachable.
C19_AtomicDebitsAreSerial ==
    (atomic /\ AllDone) => storage_balance \in SerialFinals

\* 60.00 and 100.00 debited from 1000.00, both succeed, and 900.00 is left
C19_Witness ==
    /\ ~atomic
    /\ AllDone
    /\ last.balance_before = 1000000
    /\ threads[1].amount = 60000 /\ threads[1].success
    /\ threads[2].amount = 100000 /\ threads[2].success
    /\ storage_balance = 900000
    /\ storage_balance \notin SerialFinals

\* ------------------------------------- second series of dispatcher claims

\* C21: the Interest operation with rate r > 0, registered through
\* register_operation, fails with "No interest on zero or negative balance."
\* and leaves the balance unchanged when balance <= 0; when balance > 0 it
\* succeeds and stores balance + balance * r (to the thousandth the values
\* are kept at); the amount argument plays no part.
C21_Interest ==
    (Ran("InterestOperation") /\ ~IsNone(registered[last.operation_type])
        /\ last.factory_calls[1].param > 0) =>
        LET r == last.factory_calls[1].param
            b == last.balance_before
        IN  /\ b <= 0 =>
                  /\ last.result.success = FALSE
                  /\ last.result.message = "No interest on zero or negative balance.\n"
                  /\ storage_balance = b
            /\ b > 0 =>
                  /\ last.result.success = TRUE
                  /\ last.result.new_balance = Some(storage_balance)
                  /\ (storage_balance - b) * 1000 <= b * r
                  /\ b * r < (storage_balance - b + 1) * 1000

\* 2.5% on 1000.00, called with amount 100.00, stores 1025.00
C21_Witness ==
    /\ Ran("InterestOperation")
    /\ last.operation_type = "INTEREST"
    /\ last.factory_calls[1].param = 25
    /\ last.balance_before = 1000000
    /\ last.amount = Some(100000)
    /\ last.result.success = TRUE
    /\ storage_balance = 1025000

\* C22: each execute_operation call on a registered identifier calls that
\* identifier's factory exactly once and runs execute exactly once on the
\* instance it returned; the registry holds factories, never instances, so no
\* instance serves two calls; an unknown identifier causes no factory call.
C22_OneInstancePerCall ==
    [][(last'.kind = "execute") =>
          LET id == last'.operation_type
          IN  /\ id \in DOMAIN operations =>
                    LET once == execute(operations[id], storage_balance, last'.amount)
                    IN  /\ last'.factory_calls = <<operations[id]>>
                        /\ last'.result = once.result
                        /\ last'.accesses = once.accesses
                        /\ storage_balance' = once.storage
              /\ id \notin DOMAIN operations => last'.factory_calls = <<>>
              /\ \A t \in DOMAIN operations' :
                    operations'[t] \in [cls : STRING, param : Int]]_vars

\* Credit 100.00 dispatched twice in a row: the second call made its own
\* factory call and added 100.00 once
C22_Witness ==
    /\ ExecutedDefault(CREDIT)
    /\ nsteps = 2
    /\ last.amount = Some(100000)
    /\ last.balance_before = 1100000
    /\ last.factory_calls = <<Factory("CreditOperation", 0)>>
    /\ last.accesses = <<"read", "write">>
    /\ storage_balance = 1200000

\* C25: starting from a non-negative initial balance, after any sequence of
\* View, Credit, Debit, Transfer, History, Interest (rate >= 0) and Fee
\* (fee >= 0) dispatches with any amounts, present or absent, the stored
\* balance is never negative: no call takes a non-negative balance below zero.
C25_NeverNegative ==
    [][storage_balance >= 0 => storage_balance' >= 0]_vars

\* 0.005 credited on 0.00 and debited again leaves 0.00
C25_Witness ==
    /\ Ran("DebitOperation")
    /\ nsteps = 2
    /\ last.balance_before = 5
    /\ last.amount = Some(5)
    /\ last.result.success = TRUE
    /\ storage_balance = 0

\* what a dispatch adds to the balance under C26: the amount of a successful
\* Credit, minus the amount of a successful Debit, nothing otherwise
Contribution(call) ==
    IF call.result.success /\ call.operation_type = CREDIT THEN Val(call.amount)
    ELSE IF call.result.success /\ call.operation_type = DEBIT THEN -Val(call.amount)
    ELSE 0

\* C26: with the default registry, after any sequence of dispatches the
\* stored balance equals the initial balance plus the sum of the amounts of
\* all successful Credits minus the sum of the amounts of all successful
\* Debits: each dispatch changes the balance by its contribution, and failed
\* operations, View, Transfer and History contribute nothing.
C26_BalanceIsSumOfMovements ==
    [][(last'.kind = "execute" /\ operations = DefaultOperations) =>
          storage_balance' = storage_balance + Contribution(last')]_vars

\* 100.00 + 100.00 credited - 150.00 debited = 50.00
C26_Witness ==
    /\ ExecutedDefault(DEBIT)
    /\ nsteps = 2
    /\ last.balance_before = 200000
    /\ last.amount = Some(150000)
    /\ last.result.success = TRUE
    /\ storage_balance = 50000

\* C27: whenever a result of a built-in, Interest or Fee operation carries a
\* balance, that balance equals the store's balance immediately after the
\* operation; hence a View dispatched right after a successful Credit or Debit
\* reports the same formatted balance as that operation's success message.
C27_ResultBalanceIsStored ==
    [][/\ (last'.kind = "execute" /\ Len(last'.factory_calls) = 1
              /\ ~IsNone(last'.result.new_balance)) =>
             Val(last'.result.new_balance) = storage_balance'
       /\ ((Ran("CreditOperation") \/ Ran("DebitOperation")) /\ last.result.success
              /\ last'.kind = "execute" /\ Len(last'.factory_calls) = 1
              /\ last'.factory_calls[1].cls = "ViewBalanceOperation") =>
             \E prefix \in {"Amount credited. New balance: ",
                            "Amount debited. New balance: "} :
                /\ last.result.message =
                      prefix \o format_amount(storage_balance) \o "\n"
                /\ last'.result.message =
                      "Current balance: " \o format_amount(storage_balance) \o "\n"]_vars

\* View without amount right after the credit of 100.00 on 1000.00
C27_Witness ==
    /\ ExecutedDefault(VIEW_BALANCE)
    /\ nsteps = 2
    /\ IsNone(last.amount)
    /\ last.balance_before = 1100000
    /\ last.result.new_balance = Some(1100000)
    /\ last.result.message = "Current balance: 001100.00\n"
    /\ storage_balance = 1100000

\* C28: register_operation(id, factory) changes only the mapping of id: the
\* stored balance, the mappings of all other identifiers and the catalog
\* returned by get_available_operations are unchanged, and the factory is not
\* called at registration time.
C28_RegistrationFrame ==
    [][(last'.kind = "register") =>
          LET id == last'.operation_type
          IN  /\ storage_balance' = storage_balance
              /\ DOMAIN operations' = DOMAIN operations \cup {id}
              /\ \A t \in DOMAIN operations \ {id} : operations'[t] = operations[t]
              /\ get_available_operations(operations') =
                    get_available_operations(operations)
              /\ DOMAIN get_available_operations(operations') = OperationType
              /\ last'.factory_calls = <<>>
              /\ last'.accesses = <<>>]_vars

\* FEES registered while INTEREST is mapped, on the balance 100.00
C28_Witness ==
    /\ last.kind = "register"
    /\ last.operation_type = "FEES"
    /\ operations["FEES"] = Factory("FeesOperation", 10000)
    /\ "INTEREST" \in DOMAIN operations
    /\ operations["INTEREST"] = Factory("InterestOperation", 25)
    /\ storage_balance = 100000
    /\ nsteps = 0

\* the identifier was known at some point: built in, or registered since
OnceKnown(id) == id \in OperationType \/ ~IsNone(registered[id])

\* C29: the registry has no removal operation: after any sequence of
\* register_operation and execute_operation calls the five built-in
\* identifiers and every identifier registered so far remain registered, so
\* an identifier that was once known never later yields "Unknown operation
\* type".
C29_NoRemoval ==
    [][/\ DOMAIN operations \subseteq DOMAIN operations'
       /\ \A id \in Identifiers :
             (OnceKnown(id) \/ OnceKnown(id)') => id \in DOMAIN operations'
       /\ (last'.kind = "execute" /\ OnceKnown(last'.operation_type)) =>
             /\ Len(last'.factory_calls) = 1
             /\ last'.result.message #
                   "Unknown operation type: " \o last'.operation_type \o "\n"]_vars

\* INTEREST dispatched for the second time, with FEES registered as well
C29_Witness ==
    /\ Executed
    /\ last.operation_type = "INTEREST"
    /\ nsteps = 2
    /\ last.balance_before = 1025000
    /\ last.result.success = TRUE
    /\ DOMAIN operations = OperationType \cup {"INTEREST", "FEES"}

\* ------------------------------------- second series of menu-program claims

\* C23: total(), credit(a) and debit(a) are equivalent to
\* execute_operation(VIEW_BALANCE), execute_operation(CREDIT, a) and
\* execute_operation(DEBIT, a): from the same state the text they return is
\* exactly the message of that result, and the store is left in the same state.
C23_CompatibilityMethods ==
    [][LET amount == parse_amount(readline(consume(stdin)))
           view   == execute_operation(operations, storage_balance, VIEW_BALANCE, None)
           cred   == execute_operation(operations, storage_balance, CREDIT, Some(amount))
           deb    == execute_operation(operations, storage_balance, DEBIT, Some(amount))
       IN  /\ IsChoice(1) =>
                 /\ stdout' = stdout \o <<MENU, ChoicePrompt, view.result.message>>
                 /\ storage_balance' = view.storage
           /\ (IsChoice(2) /\ amount # INF) =>
                 /\ stdout' = stdout \o <<MENU, ChoicePrompt, CreditPrompt, cred.result.message>>
                 /\ storage_balance' = cred.storage
           /\ IsChoice(3) =>
                 /\ stdout' = stdout \o <<MENU, ChoicePrompt, DebitPrompt, deb.result.message>>
                 /\ storage_balance' = deb.storage]_vars

\* debit(3.00) then total() on 1000.00
C23_Witness ==
    /\ stdout = <<MENU, ChoicePrompt, DebitPrompt,
                  "Amount debited. New balance: 000997.00\n",
                  MENU, ChoicePrompt, "Current balance: 000997.00\n">>
    /\ storage_balance = 997000

\* ------------------------------------------------------- the balance store

\* mutant: the store refuses to go below zero
DataProgram_write_Clamp(new_balance) == IF new_balance < 0 THEN 0 ELSE new_balance

\* DataProgram.write: the value _storage_balance takes, float(new_balance),
\* which is new_balance itself for a float
DataProgram_write(new_balance) == new_balance

\* DataProgram.read: the value returned for a stored balance
DataProgram_read(balance) == balance

\* number of calls on the store in one behaviour
MaxCalls == 3

\* the values written: -50.00, 0.00, 0.005, 1000.00
StoreValues == {-50000, 0, 5, 1000000}

\* DataProgram(), DataProgram(0.0), DataProgram(-50.0)
InitStore ==
    /\ storage_balance \in {DataProgram_init(b) : b \in {None, Some(0), Some(-50000)}}
    /\ operations = DefaultOperations
    /\ last = Call("none", "", None, storage_balance, NoResult, <<>>, <<>>)
    /\ registered = [t \in Identifiers |-> None]
    /\ nsteps = 0
    /\ history = <<>>
    /\ FormatIdle /\ MenuIdle /\ RaceIdle

\* data.write(v)
StoreWrite ==
    /\ Len(history) < MaxCalls
    /\ \E v \in StoreValues :
          /\ storage_balance' = DataProgram_write(v)
          /\ history' = Append(history, [call |-> "write", value |-> v])
    /\ UNCHANGED <<operations, dispatchVars, formatVars, menuVars, raceVars>>

\* data.read()
StoreRead ==
    /\ Len(history) < MaxCalls
    /\ history' = Append(history,
                         [call |-> "read", value |-> DataProgram_read(storage_balance)])
    /\ UNCHANGED <<storage_balance, operations, dispatchVars, formatVars, menuVars,
                   raceVars>>

NextStore == StoreWrite \/ StoreRead

SpecStore == InitStore /\ [][NextStore]_vars

\* the value of the most recent write among the first n calls, or the initial
\* value if there is none
LatestWrite(n) ==
    LET writes == {j \in 1 .. n : history[j].call = "write"}
    IN  IF writes = {} THEN last.balance_before
        ELSE history[CHOOSE j \in writes : \A k \in writes : k <= j].value

\* C24: write(v) replaces the stored balance with v for every v, negative
\* values included, without validation; read() returns the value of the most
\* recent write (or the initial value if none) and never changes the stored
\* balance.
C24_StoreReadWrite ==
    /\ storage_balance = LatestWrite(Len(history))
    /\ \A i \in 1 .. Len(history) :
          history[i].call = "read" => history[i].value = LatestWrite(i - 1)

\* 1000.00 initially; write(-50.00), read(), read()
C24_Witness ==
    /\ last.balance_before = 1000000
    /\ history = << [call |-> "write", value |-> -50000],
                    [call |-> "read", value |-> -50000],
                    [call |-> "read", value |-> -50000] >>
    /\ storage_balance = -50000

\* the amount line does not parse as a number, or is missing at end of input
UnparsableAmount == IsNone(float(strip(readline(consume(stdin)))))

\* C30: in the menu program, after selection 2 or 3 an amount line that does
\* not parse as a number (a missing line at end of input included) is treated
\* as amount 0.0: the Credit or Debit is dispatched, reports success and
\* leaves the balance unchanged; the amount passed is never absent, so the
\* "Amount required" failures do not occur through the menu.
C30_UnparsableAmountIsZero ==
    [][/\ (IsChoice(2) /\ UnparsableAmount) =>
             /\ stdout' = stdout \o <<MENU, ChoicePrompt, CreditPrompt,
                   "Amount credited. New balance: "
                       \o format_amount(storage_balance) \o "\n">>
             /\ storage_balance' = storage_balance
             /\ pc' = "running"
       /\ (IsChoice(3) /\ UnparsableAmount) =>
             /\ stdout' = stdout \o <<MENU, ChoicePrompt, DebitPrompt,
                   "Amount debited. New balance: "
                       \o format_amount(storage_balance) \o "\n">>
             /\ storage_balance' = storage_balance
             /\ pc' = "running"
       /\ \A i \in 1 .. Len(stdout') :
             stdout'[i] \notin {"Amount required for credit operation.\n",
                                "Amount required for debit operation.\n"}]_vars

\* 2000.00 credited, then selection 3 with no amount line left
C30_Witness ==
    /\ stdout = <<MENU, ChoicePrompt, CreditPrompt,
                  "Amount credited. New balance: 003000.00\n",
                  MENU, ChoicePrompt, DebitPrompt,
                  "Amount debited. New balance: 003000.00\n">>
    /\ stdin = <<>>
    /\ runs = 1
    /\ pc = "running"
    /\ storage_balance = 3000000

====
